---- MODULE Spec2Model ----
(***************************************************************************)
(* The iterator layer of the leveldb binding (src/database/iterator.rs):   *)
(* one native cursor over the engine's sorted keyspace, wrapped by         *)
(* Iterator / RevIterator with the optional bounds from, to and prefix.    *)
(*                                                                         *)
(* The engine's table is the sequence db of (key, value) entries, sorted   *)
(* by key in bytewise order, keys unique.  The cursor is an index into db; *)
(* 0 is the engine's "not valid" position.  Keys and values are byte       *)
(* sequences.  An Option is a sequence of length 0 (None) or 1 (Some).     *)
(***************************************************************************)
EXTENDS Integers, Sequences, FiniteSets

VARIABLES
    db,      \* the engine's sorted table: sequence of <<key, value>>
    live,    \* "none": no iterator yet, "live": iterator in use,
             \* "crashed": a native call with a violated REQUIRES aborted,
             \* "dropped": its owner went out of scope
    pos,     \* RawIterator.ptr's position: 0 (not valid) or an index of db
    start,   \* Iterator.start / RevIterator.start
    rev,     \* FALSE: the value is an Iterator, TRUE: a RevIterator
    from,    \* Option<&[u8]>
    to,      \* Option<&[u8]>
    prefix,  \* Option<&[u8]>
    res,     \* history: the results of the pulls so far, Some(item) or None
    ub,      \* history: a native call was made with its REQUIRES violated
    kind,    \* "entry": Iterator / RevIterator, "key": KeyIterator /
             \* RevKeyIterator, "value": ValueIterator / RevValueIterator
    ext,     \* history: what the last call of last() made before the first
             \* pull returned, None before
    sought,  \* history: the key of the last seek(key) made before the first
             \* pull, None before
    reversals, \* history: the calls of reverse() counted on this iterator
    owners,  \* the number of values that hold RawIterator{ptr} of cursor 1
    destroyed, \* per native cursor, the calls of leveldb_iter_destroy on it
    \* a second iterator over the same store (no bounds)
    liveB,   \* "none", "live" or "dropped"
    ptrB,    \* the native cursor it holds: 1 (pos) or 2 (posB)
    posB,    \* the position of native cursor 2
    startB,  \* its start flag
    revB,    \* its direction
    resB     \* history: the results of its pulls

viewVars == <<kind, ext, sought, reversals>>
ownVars == <<owners, destroyed>>
bVars == <<liveB, ptrB, posB, startB, revB, resB>>
vars == <<db, live, pos, start, rev, from, to, prefix, res, ub,
          kind, ext, sought, reversals, owners, destroyed,
          liveB, ptrB, posB, startB, revB, resB>>

----------------------------------------------------------------------------
(* Bounds of the model.                                                    *)

\* most entries put into the store
MaxStore == 2
\* most pulls (calls of next) made on one iterator
MaxPulls == 4
\* most calls of reverse() that are counted on one iterator
MaxReversals == 2

\* The bytes keys are made of, and the keys: every byte string of length
\* one or two over them (<<1>> < <<1,1>> < <<1,2>> < <<2>> < <<2,1>> < <<2,2>>),
\* so that a key can be a proper prefix of another.
Bytes == {1, 2}
Keys == {<<a>> : a \in Bytes} \cup {<<a, b>> : a \in Bytes, b \in Bytes}
\* A value equal to a key (as in the tests) and one that is no key.
Values == {<<1>>, <<9>>}

None == <<>>
Some(x) == <<x>>
OptKeys == {None} \cup {Some(k) : k \in Keys}

----------------------------------------------------------------------------
(* Byte strings.                                                           *)

MinOf(a, b) == IF a <= b THEN a ELSE b

\* a <= b on &[u8]: lexicographic, the shorter of two equal beginnings first
LexLeq(a, b) ==
    LET m == MinOf(Len(a), Len(b))
        D == {i \in 1..m : a[i] # b[i]}
    IN  IF D = {}
        THEN Len(a) <= Len(b)
        ELSE LET i == CHOOSE j \in D : \A l \in D : j <= l
             IN  a[i] < b[i]

LexLess(a, b) == LexLeq(a, b) /\ a # b

\* key.starts_with(p)
StartsWith(key, p) == Len(p) <= Len(key) /\ SubSeq(key, 1, Len(p)) = p

----------------------------------------------------------------------------
(* The engine: the sorted table and the raw cursor.                        *)

KeyAt(i) == db[i][1]
ValueAt(i) == db[i][2]

\* StoreHandle.put: insert or overwrite, the table stays sorted
PutDb(d, k, v) ==
    SelectSeq(d, LAMBDA e : LexLess(e[1], k))
        \o << <<k, v>> >> \o
    SelectSeq(d, LAMBDA e : LexLess(k, e[1]))

\* leveldb_iter_seek_to_first
seek_to_first == IF Len(db) = 0 THEN 0 ELSE 1

\* leveldb_iter_seek_to_last
raw_seek_to_last == Len(db)

\* a seek that lands after an entry equal to key
seek_after(key) ==
    LET G == {i \in 1..Len(db) : LexLess(key, KeyAt(i))}
    IN  IF G = {} THEN 0 ELSE CHOOSE i \in G : \A j \in G : i <= j

\* leveldb_iter_seek: the first entry whose key is >= key, else not valid
seek(key) ==
    LET G == {i \in 1..Len(db) : LexLeq(key, KeyAt(i))}
    IN  IF G = {} THEN 0 ELSE CHOOSE i \in G : \A j \in G : i <= j

\* leveldb_iter_next on a valid cursor
iter_next(p) == IF p < Len(db) THEN p + 1 ELSE 0

\* leveldb_iter_prev on a valid cursor
iter_prev(p) == p - 1

\* advance_raw: leveldb_iter_next (Iterator) or leveldb_iter_prev
\* (RevIterator).  Both REQUIRE a valid cursor; on a cursor that is not
\* valid the call is undefined: any position may result.
advance_raw(p, reverse) ==
    IF p = 0
    THEN 0..Len(db)
    ELSE IF reverse THEN {iter_prev(p)} ELSE {iter_next(p)}

----------------------------------------------------------------------------
(* LevelDBIterator.                                                        *)

\* a validity check whose forward to bound is exclusive
valid_to_open(p, reverse, f, t, pre) ==
    /\ p # 0
    /\ IF pre # None
       THEN StartsWith(KeyAt(p), pre[1])
       ELSE /\ f # None => IF reverse
                           THEN LexLeq(KeyAt(p), f[1])
                           ELSE LexLeq(f[1], KeyAt(p))
            /\ t # None => IF reverse
                           THEN LexLeq(t[1], KeyAt(p))
                           ELSE LexLess(KeyAt(p), t[1])

\* a validity check that compares with to the same way in both directions
valid_to_same(p, reverse, f, t, pre) ==
    /\ p # 0
    /\ IF pre # None
       THEN StartsWith(KeyAt(p), pre[1])
       ELSE /\ f # None => IF reverse
                           THEN LexLeq(KeyAt(p), f[1])
                           ELSE LexLeq(f[1], KeyAt(p))
            /\ t # None => LexLeq(KeyAt(p), t[1])

\* valid(reverse) with the cursor at p
valid(p, reverse, f, t, pre) ==
    IF p # 0
    THEN IF pre # None
         THEN StartsWith(KeyAt(p), pre[1])
         ELSE LET okFrom == IF f # None
                            THEN IF reverse
                                 THEN LexLeq(KeyAt(p), f[1])
                                 ELSE LexLeq(f[1], KeyAt(p))
                            ELSE TRUE
                  okTo == IF t # None
                          THEN IF reverse
                               THEN LexLeq(t[1], KeyAt(p))
                               ELSE LexLeq(KeyAt(p), t[1])
                          ELSE TRUE
              IN  okFrom /\ okTo
    ELSE FALSE

\* advance(reverse) steps a cursor that is not valid: in the Started branch,
\* or in the "seeked past from" branch after a seek that found no key
advance_ub(p, st, reverse, f, t, pre) ==
    IF ~st
    THEN p = 0
    ELSE /\ pre = None
         /\ f # None
         /\ ~valid(seek(f[1]), reverse, f, t, pre)
         /\ reverse
         /\ seek(f[1]) = 0

\* an advance that takes the raw step on the first call too
advance_always_steps(p, st, reverse, f, t, pre) ==
    advance_raw(p, reverse)

\* an advance that looks at from before prefix
advance_from_first(p, st, reverse, f, t, pre) ==
    IF ~st
    THEN advance_raw(p, reverse)
    ELSE IF f # None
         THEN IF ~valid(seek(f[1]), reverse, f, t, pre) /\ reverse
              THEN advance_raw(seek(f[1]), reverse)
              ELSE {seek(f[1])}
         ELSE IF pre # None
              THEN {seek(pre[1])}
              ELSE {p}

\* an advance whose first call goes back to the first key when no bound is set
advance_rewinds(p, st, reverse, f, t, pre) ==
    IF ~st
    THEN advance_raw(p, reverse)
    ELSE IF pre # None
         THEN {seek(pre[1])}
         ELSE IF f # None
              THEN IF ~valid(seek(f[1]), reverse, f, t, pre) /\ reverse
                   THEN advance_raw(seek(f[1]), reverse)
                   ELSE {seek(f[1])}
              ELSE {seek_to_first}

\* the positions advance(reverse) can leave the cursor at, before it
\* evaluates valid(reverse)
advance(p, st, reverse, f, t, pre) ==
    IF ~st
    THEN advance_raw(p, reverse)
    ELSE IF pre # None
         THEN {seek(pre[1])}
         ELSE IF f # None
              THEN IF ~valid(seek(f[1]), reverse, f, t, pre) /\ reverse
                   THEN advance_raw(seek(f[1]), reverse)
                   ELSE {seek(f[1])}
              ELSE {p}

\* entry(): (key(), value())
entry(p) == <<KeyAt(p), ValueAt(p)>>

\* a ValueIterator that extracts with key()
item_keys_only(p, k, reverse) ==
    IF k = "entry" THEN entry(p) ELSE KeyAt(p)

\* what next() extracts, by impl_iterator!'s $ItemMethod: entry for Iterator
\* and RevIterator, key for KeyIterator and RevKeyIterator, value for
\* ValueIterator, key for RevValueIterator
item(p, k, reverse) ==
    IF k = "entry" THEN entry(p)
    ELSE IF k = "key" THEN KeyAt(p)
    ELSE IF reverse THEN KeyAt(p) ELSE ValueAt(p)

\* Pulling an iterator until next() returns None (a for loop over it): the
\* entries it yields, from cursor position p and start flag st.  Meant for
\* iterators whose advance never steps a cursor that is not valid before
\* the first None.
RECURSIVE drain(_, _, _, _, _, _, _)
drain(p, st, reverse, f, t, pre, fuel) ==
    IF fuel = 0
    THEN <<>>
    ELSE LET q == CHOOSE x \in advance(p, st, reverse, f, t, pre) : TRUE
         IN  IF valid(q, reverse, f, t, pre)
             THEN <<entry(q)>> \o drain(q, FALSE, reverse, f, t, pre, fuel - 1)
             ELSE <<>>

----------------------------------------------------------------------------
(* The operations.                                                         *)

Init ==
    /\ db = <<>>
    /\ live = "none"
    /\ pos = 0
    /\ start = TRUE
    /\ rev = FALSE
    /\ from = None
    /\ to = None
    /\ prefix = None
    /\ res = <<>>
    /\ ub = FALSE
    /\ kind = "entry"
    /\ ext = None
    /\ sought = None
    /\ reversals = 0
    /\ owners = 0
    /\ destroyed = [h \in {1, 2} |-> 0]
    /\ liveB = "none"
    /\ ptrB = 2
    /\ posB = 0
    /\ startB = TRUE
    /\ revB = FALSE
    /\ resB = <<>>

\* database.put(key, value), before the iterator is created
Put ==
    /\ live = "none"
    /\ \E k \in Keys, v \in Values :
        /\ \/ Len(db) < MaxStore
           \/ \E i \in 1..Len(db) : KeyAt(i) = k
        /\ db' = PutDb(db, k, v)
    /\ liveB = "none"
    /\ UNCHANGED <<live, pos, start, rev, from, to, prefix, res, ub>>
    /\ UNCHANGED <<viewVars, ownVars, bVars>>

\* Iterator::new, for the view k: a fresh native cursor, seeked to first
new(k) ==
    /\ live = "none"
    /\ live' = "live"
    /\ pos' = seek_to_first
    /\ start' = TRUE
    /\ rev' = FALSE
    /\ from' = None
    /\ to' = None
    /\ prefix' = None
    /\ kind' = k
    /\ owners' = 1
    /\ UNCHANGED <<db, res, ub, ext, sought, reversals, destroyed, bVars>>

\* Iterator::new via Iterable::iter
NewIter == new("entry")

\* KeyIterator::new via Iterable::keys_iter
NewKeysIter == new("key")

\* ValueIterator::new via Iterable::value_iter
NewValueIter == new("value")

\* the iterator is being configured: no pull has been made yet
Building == live = "live" /\ res = <<>>

\* from(key)
From ==
    /\ Building
    /\ \E k \in Keys : from' = Some(k)
    /\ UNCHANGED <<db, live, pos, start, rev, to, prefix, res, ub>>
    /\ UNCHANGED <<viewVars, ownVars, bVars>>

\* to(key)
To ==
    /\ Building
    /\ \E k \in Keys : to' = Some(k)
    /\ UNCHANGED <<db, live, pos, start, rev, from, prefix, res, ub>>
    /\ UNCHANGED <<viewVars, ownVars, bVars>>

\* prefix(key)
Prefix ==
    /\ Building
    /\ \E k \in Keys : prefix' = Some(k)
    /\ UNCHANGED <<db, live, pos, start, rev, from, to, res, ub>>
    /\ UNCHANGED <<viewVars, ownVars, bVars>>

\* a reverse() that never repositions the cursor
reverse_pos_keep(p, st, reverse) == p

\* a reverse() that starts a RevIterator at the to bound
reverse_pos_at_to(p, st, reverse) ==
    IF st
    THEN IF reverse
         THEN seek_to_first
         ELSE IF to # None THEN seek(to[1]) ELSE raw_seek_to_last
    ELSE p

\* a reverse() that repositions the cursor whatever the start flag is
reverse_pos_always(p, st, reverse) ==
    IF reverse THEN seek_to_first ELSE raw_seek_to_last

\* a reverse() that seeks to the last key in both types
reverse_pos_same_edge(p, st, reverse) ==
    IF st THEN raw_seek_to_last ELSE p

\* the cursor position reverse() hands on
reverse_pos(p, st, reverse) ==
    IF st
    THEN IF reverse THEN seek_to_first ELSE raw_seek_to_last
    ELSE p

\* a reverse() that copies the RawIterator into the new value
holders_after_reverse_copy(o) == o + 1

\* The values holding the RawIterator once reverse() has built its result
\* with iter: self.iter.  The field is moved: self no longer holds it.
holders_after_reverse(o) == o

\* a reverse() that builds its result with start: true
reverse_start_fresh(st) == TRUE

\* the start flag reverse() hands on: start: self.start
reverse_start(st) == st

\* Iterator::reverse / RevIterator::reverse (and, for the views,
\* impl_leveldb_iterator!'s reverse, which wraps inner.reverse()): the value
\* it builds.  self is consumed: a RawIterator it still held at the end of
\* the call would be dropped there.
reverse_value ==
    /\ pos' = reverse_pos(pos, start, rev)
    /\ rev' = ~rev
    /\ start' = reverse_start(start)
    /\ LET h == holders_after_reverse(owners)
       IN  IF h > 1
           THEN /\ owners' = h - 1
                /\ destroyed' = [destroyed EXCEPT ![1] = @ + 1]
           ELSE /\ owners' = h
                /\ destroyed' = destroyed
    /\ UNCHANGED <<db, live, from, to, prefix, res, ub>>
    /\ UNCHANGED <<kind, ext, sought, bVars>>

\* reverse() in the builder chain, before the first pull
Reverse ==
    /\ Building
    /\ reverse_value
    /\ UNCHANGED reversals

\* The owner of the iterator goes out of scope: RawIterator::drop
Drop ==
    /\ live = "live"
    /\ live' = "dropped"
    /\ owners' = owners - 1
    /\ destroyed' = [destroyed EXCEPT ![1] = @ + 1]
    /\ UNCHANGED <<db, pos, start, rev, from, to, prefix, res, ub>>
    /\ UNCHANGED <<viewVars, bVars>>

\* iter::Iterator::next, returning
PullReturn ==
    /\ live = "live"
    /\ Len(res) < MaxPulls
    /\ \E q \in advance(pos, start, rev, from, to, prefix) :
        /\ pos' = q
        /\ res' = Append(res, IF valid(q, rev, from, to, prefix)
                              THEN Some(item(q, kind, rev))
                              ELSE None)
    /\ start' = FALSE
    /\ ub' = (ub \/ advance_ub(pos, start, rev, from, to, prefix))
    /\ UNCHANGED <<db, live, rev, from, to, prefix>>
    /\ UNCHANGED <<viewVars, ownVars, bVars>>

\* iter::Iterator::next, aborting in the native call whose REQUIRES it broke
PullCrash ==
    /\ live = "live"
    /\ Len(res) < MaxPulls
    /\ advance_ub(pos, start, rev, from, to, prefix)
    /\ live' = "crashed"
    /\ ub' = TRUE
    /\ UNCHANGED <<db, pos, start, rev, from, to, prefix, res>>
    /\ UNCHANGED <<viewVars, ownVars, bVars>>

\* seek(key), called by the client before the first pull
Seek ==
    /\ Building
    /\ \E k \in Keys :
        /\ pos' = seek(k)
        /\ sought' = Some(k)
    /\ UNCHANGED <<db, live, start, rev, from, to, prefix, res, ub>>
    /\ UNCHANGED <<kind, ext, reversals, ownVars, bVars>>

\* LevelDBIterator::seek_to_last: at the to bound when one is set
seek_to_last(t) == IF t # None THEN seek(t[1]) ELSE raw_seek_to_last

\* What key() and value() can hand back on a cursor that is not valid:
\* leveldb_iter_key / leveldb_iter_value REQUIRE a valid cursor, the bytes
\* are whatever the pointer and length happen to be.
Garbage == {<<>>, <<1>>}

\* Iterator::last on the forward entry iterator, returning.  It always
\* returns Some((key(), value())) of the cursor seek_to_last left.
Last ==
    /\ Building
    /\ ~rev
    /\ kind = "entry"
    /\ pos' = seek_to_last(to)
    /\ IF pos' # 0
       THEN /\ ext' = Some(Some(entry(pos')))
            /\ ub' = ub
       ELSE /\ \E gk \in Garbage, gv \in Garbage : ext' = Some(Some(<<gk, gv>>))
            /\ ub' = TRUE
    /\ UNCHANGED <<db, live, start, rev, from, to, prefix, res>>
    /\ UNCHANGED <<kind, sought, reversals, ownVars, bVars>>

\* Iterator::last, aborting in leveldb_iter_key on a cursor that is not valid
LastCrash ==
    /\ Building
    /\ ~rev
    /\ kind = "entry"
    /\ seek_to_last(to) = 0
    /\ pos' = 0
    /\ live' = "crashed"
    /\ ub' = TRUE
    /\ UNCHANGED <<db, start, rev, from, to, prefix, res>>
    /\ UNCHANGED <<viewVars, ownVars, bVars>>

Next ==
    \/ Put
    \/ NewIter
    \/ From
    \/ To
    \/ Prefix
    \/ Reverse
    \/ PullReturn
    \/ PullCrash

Spec == Init /\ [][Next]_vars

\* A forward entry iterator is configured and asked for last().
NextLast ==
    \/ Put
    \/ NewIter
    \/ From
    \/ To
    \/ Prefix
    \/ Last
    \/ LastCrash

SpecLast == Init /\ [][NextLast]_vars

\* next() of a for loop: no pull is made after the one that returned None
LoopPull == ~(\E i \in 1..Len(res) : res[i] = None) /\ PullReturn
LoopPullCrash == ~(\E i \in 1..Len(res) : res[i] = None) /\ PullCrash

\* A key-only or value-only view is configured, reversed and pulled until None.
NextViews ==
    \/ Put
    \/ NewKeysIter
    \/ NewValueIter
    \/ From
    \/ To
    \/ Prefix
    \/ Reverse
    \/ LoopPull
    \/ LoopPullCrash

SpecViews == Init /\ [][NextViews]_vars

\* An iterator or a view is made, reversed, pulled and dropped at any point.
NextOwn ==
    \/ Put
    \/ NewIter
    \/ NewKeysIter
    \/ NewValueIter
    \/ Reverse
    \/ LoopPull
    \/ Drop

SpecOwn == Init /\ [][NextOwn]_vars

----------------------------------------------------------------------------
(* A second iterator B over the same store, with no bounds.  The first     *)
(* iterator holds native cursor 1, whose position is pos.                  *)

\* a leveldb_create_iterator that hands out a cursor already in use
create_iterator_reuse(used) == CHOOSE h \in used : TRUE

\* leveldb_create_iterator: a new native cursor, none of those in use
create_iterator(used) == CHOOSE h \in {1, 2} : h \notin used

\* the position of the native cursor B holds
curB == IF ptrB = 1 THEN pos ELSE posB

\* Iterator::new for B, after the first iterator was made
NewIterB ==
    /\ live # "none"
    /\ liveB = "none"
    /\ liveB' = "live"
    /\ ptrB' = create_iterator({1})
    /\ IF ptrB' = 1
       THEN pos' = seek_to_first /\ posB' = posB
       ELSE posB' = seek_to_first /\ pos' = pos
    /\ startB' = TRUE
    /\ revB' = FALSE
    /\ UNCHANGED <<db, live, start, rev, from, to, prefix, res, ub>>
    /\ UNCHANGED <<viewVars, ownVars, resB>>

\* reverse() on B, before its first pull
ReverseB ==
    /\ liveB = "live"
    /\ resB = <<>>
    /\ LET q == reverse_pos(curB, startB, revB)
       IN  IF ptrB = 1
           THEN pos' = q /\ posB' = posB
           ELSE posB' = q /\ pos' = pos
    /\ revB' = ~revB
    /\ UNCHANGED <<db, live, start, rev, from, to, prefix, res, ub>>
    /\ UNCHANGED <<viewVars, ownVars, liveB, ptrB, startB, resB>>

\* next() on B, in a for loop
PullB ==
    /\ liveB = "live"
    /\ Len(resB) < MaxPulls
    /\ ~(\E i \in 1..Len(resB) : resB[i] = None)
    /\ \E q \in advance(curB, startB, revB, None, None, None) :
        /\ IF ptrB = 1
           THEN pos' = q /\ posB' = posB
           ELSE posB' = q /\ pos' = pos
        /\ resB' = Append(resB, IF valid(q, revB, None, None, None)
                                THEN Some(entry(q))
                                ELSE None)
    /\ startB' = FALSE
    /\ UNCHANGED <<db, live, start, rev, from, to, prefix, res, ub>>
    /\ UNCHANGED <<viewVars, ownVars, liveB, ptrB, revB>>

\* B goes out of scope: RawIterator::drop on its cursor
DropB ==
    /\ liveB = "live"
    /\ liveB' = "dropped"
    /\ destroyed' = [destroyed EXCEPT ![ptrB] = @ + 1]
    /\ UNCHANGED <<db, live, pos, start, rev, from, to, prefix, res, ub>>
    /\ UNCHANGED <<viewVars, owners, ptrB, posB, startB, revB, resB>>

\* Two iterators over one store, their operations interleaved: the first is
\* positioned with seek, pulled and dropped, B is reversed, pulled and dropped.
NextTwo ==
    \/ Put
    \/ NewIter
    \/ Seek
    \/ LoopPull
    \/ Drop
    \/ NewIterB
    \/ ReverseB
    \/ PullB
    \/ DropB

SpecTwo == Init /\ [][NextTwo]_vars

\* A forward entry iterator with no bounds is positioned with seek and pulled.
NextSeek ==
    \/ Put
    \/ NewIter
    \/ Seek
    \/ PullReturn
    \/ PullCrash

SpecSeek == Init /\ [][NextSeek]_vars

----------------------------------------------------------------------------
(* Operations between the pulls.  reverse, from, to and prefix take self   *)
(* and hand it back, seek, seek_to_first, seek_to_last and last take       *)
(* &self: a client can call each of them at any point of a traversal.      *)

\* most pulls made on an iterator that is operated on between its pulls
MaxMidPulls == 2

\* the keys such calls are made with: one that is the prefix of other keys,
\* one that has a proper prefix among the keys
FewKeys == {<<1, 2>>, <<2>>}

\* the iterator was pulled at least once and is still in use
Traversing == live = "live" /\ res # <<>>

\* reverse() between two pulls
ReverseMid ==
    /\ Traversing
    /\ reverse_value
    /\ UNCHANGED reversals

\* reverse() before the first pull, counted
ReverseCounted ==
    /\ Building
    /\ reversals < MaxReversals
    /\ reverse_value
    /\ reversals' = reversals + 1

\* from(key), at any point
FromAny ==
    /\ live = "live"
    /\ \E k \in FewKeys : from' = Some(k)
    /\ UNCHANGED <<db, live, pos, start, rev, to, prefix, res, ub>>
    /\ UNCHANGED <<viewVars, ownVars, bVars>>

\* to(key), at any point
ToAny ==
    /\ live = "live"
    /\ \E k \in FewKeys : to' = Some(k)
    /\ UNCHANGED <<db, live, pos, start, rev, from, prefix, res, ub>>
    /\ UNCHANGED <<viewVars, ownVars, bVars>>

\* prefix(key), at any point
PrefixAny ==
    /\ live = "live"
    /\ \E k \in FewKeys : prefix' = Some(k)
    /\ UNCHANGED <<db, live, pos, start, rev, from, to, res, ub>>
    /\ UNCHANGED <<viewVars, ownVars, bVars>>

\* seek(key), at any point
SeekAny ==
    /\ live = "live"
    /\ \E k \in FewKeys : pos' = seek(k)
    /\ UNCHANGED <<db, live, start, rev, from, to, prefix, res, ub>>
    /\ UNCHANGED <<viewVars, ownVars, bVars>>

\* LevelDBIterator::seek_to_first, called by the client
SeekToFirst ==
    /\ live = "live"
    /\ pos' = seek_to_first
    /\ UNCHANGED <<db, live, start, rev, from, to, prefix, res, ub>>
    /\ UNCHANGED <<viewVars, ownVars, bVars>>

\* LevelDBIterator::seek_to_last, called by the client
SeekToLast ==
    /\ live = "live"
    /\ pos' = seek_to_last(to)
    /\ UNCHANGED <<db, live, start, rev, from, to, prefix, res, ub>>
    /\ UNCHANGED <<viewVars, ownVars, bVars>>

\* Iterator::last between two pulls, returning (what it returns is not
\* recorded)
LastMid ==
    /\ Traversing
    /\ ~rev
    /\ kind = "entry"
    /\ pos' = seek_to_last(to)
    /\ ub' = (ub \/ pos' = 0)
    /\ UNCHANGED <<db, live, start, rev, from, to, prefix, res>>
    /\ UNCHANGED <<viewVars, ownVars, bVars>>

\* Iterator::last between two pulls, aborting in leveldb_iter_key
LastMidCrash ==
    /\ Traversing
    /\ ~rev
    /\ kind = "entry"
    /\ seek_to_last(to) = 0
    /\ pos' = 0
    /\ live' = "crashed"
    /\ ub' = TRUE
    /\ UNCHANGED <<db, start, rev, from, to, prefix, res>>
    /\ UNCHANGED <<viewVars, ownVars, bVars>>

\* next() on such an iterator
MidPull == Len(res) < MaxMidPulls /\ PullReturn
MidPullCrash == Len(res) < MaxMidPulls /\ PullCrash

\* An entry iterator is bounded, positioned with seek and pulled in any
\* order, and reversed once it was pulled.
NextMid ==
    \/ Put
    \/ NewIter
    \/ FromAny
    \/ ToAny
    \/ PrefixAny
    \/ SeekAny
    \/ ReverseMid
    \/ MidPull
    \/ MidPullCrash

SpecMid == Init /\ [][NextMid]_vars

\* Every operation that moves the cursor, with the bounds from and to: the
\* three seeks, last, the pulls, and reverse once the iterator was pulled.
NextOps ==
    \/ Put
    \/ NewIter
    \/ FromAny
    \/ ToAny
    \/ SeekAny
    \/ SeekToFirst
    \/ SeekToLast
    \/ ReverseMid
    \/ LastMid
    \/ LastMidCrash
    \/ MidPull
    \/ MidPullCrash

SpecOps == Init /\ [][NextOps]_vars

\* A forward entry iterator is given a to bound, asked for last() and then
\* pulled until None.
NextLastPull ==
    \/ Put
    \/ NewIter
    \/ To
    \/ Last
    \/ LastCrash
    \/ LoopPull

SpecLastPull == Init /\ [][NextLastPull]_vars

\* An entry iterator is configured, reversed a number of times before its
\* first pull and pulled until None.
NextFlip ==
    \/ Put
    \/ NewIter
    \/ From
    \/ To
    \/ Prefix
    \/ ReverseCounted
    \/ LoopPull
    \/ LoopPullCrash

SpecFlip == Init /\ [][NextFlip]_vars

----------------------------------------------------------------------------
TypeOK ==
    /\ Len(db) <= MaxStore
    /\ \A i \in 1..Len(db) : KeyAt(i) \in Keys /\ ValueAt(i) \in Values
    /\ \A i \in 1..(Len(db) - 1) : LexLess(KeyAt(i), KeyAt(i + 1))
    /\ live \in {"none", "live", "crashed", "dropped"}
    /\ pos \in 0..Len(db)
    /\ start \in BOOLEAN
    /\ rev \in BOOLEAN
    /\ from \in OptKeys
    /\ to \in OptKeys
    /\ prefix \in OptKeys
    /\ Len(res) <= MaxPulls
    /\ ub \in BOOLEAN
    /\ kind \in {"entry", "key", "value"}
    /\ ext \in {None} \cup {Some(Some(<<a, b>>)) :
                              a \in Keys \cup Garbage, b \in Values \cup Garbage}
    /\ sought \in OptKeys
    /\ reversals \in 0..MaxReversals
    /\ owners \in 0..1
    /\ \A h \in {1, 2} : destroyed[h] \in 0..1
    /\ liveB # "none" => ptrB = 2
    /\ liveB \in {"none", "live", "dropped"}
    /\ ptrB \in {1, 2}
    /\ posB \in 0..Len(db)
    /\ startB \in BOOLEAN
    /\ revB \in BOOLEAN
    /\ Len(resB) <= MaxPulls

----------------------------------------------------------------------------
(* What the pulls have returned.                                           *)

IsNone(i) == res[i] = None
Exhausted == \E i \in 1..Len(res) : IsNone(i)
\* the pull that returned the first None, or one past the pulls made
FirstNone ==
    IF Exhausted
    THEN CHOOSE i \in 1..Len(res) : IsNone(i) /\ \A j \in 1..(i - 1) : ~IsNone(j)
    ELSE Len(res) + 1
\* the entries yielded before the first None
Yielded == [j \in 1..(FirstNone - 1) |-> res[j][1]]
\* the first pull was made: it returned, or it aborted
FirstPullMade == Len(res) >= 1 \/ live = "crashed"

Reversed(s) == [i \in 1..Len(s) |-> s[Len(s) + 1 - i]]

\* Pull by pull, up to and including the first None, the iterator has
\* returned the entries of E in order and then None, and no pull aborted
\* before that None.
YieldsExactly(E) ==
    /\ \A i \in 1..FirstNone :
          i <= Len(res) => res[i] = IF i <= Len(E) THEN Some(E[i]) ELSE None
    /\ live = "crashed" => Exhausted

\* the stored entries whose key satisfies P, ascending
Stored(P(_)) == SelectSeq(db, LAMBDA e : P(e[1]))

Unbounded == from = None /\ to = None /\ prefix = None
Fresh == live # "none"

\* the cursor position of a NotStarted iterator of the given direction on
\* which seek was never called
InitialEdge(reverse) == IF reverse THEN raw_seek_to_last ELSE seek_to_first

----------------------------------------------------------------------------
(* C1.  An unbounded forward iterator, pulled until it returns None,       *)
(* yields every stored entry exactly once, in strictly ascending key       *)
(* order, and then returns None.                                           *)
C1_ForwardVisitsAll ==
    (Fresh /\ ~rev /\ Unbounded) =>
        /\ YieldsExactly(db)
        /\ \A i, j \in 1..Len(Yielded) :
              i < j => LexLess(Yielded[i][1], Yielded[j][1])
        /\ Exhausted =>
              \A i \in 1..Len(db) :
                  Cardinality({j \in 1..Len(Yielded) : Yielded[j] = db[i]}) = 1

C1_Witness ==
    /\ ~rev /\ Unbounded
    /\ Len(db) = MaxStore
    /\ Len(res) = MaxStore + 1
    /\ IsNone(MaxStore + 1)

(* C2.  iter().reverse() with no bounds, pulled until None, yields exactly *)
(* the reverse of what the unbounded forward iterator over the same store  *)
(* yields.                                                                 *)
C2_ReverseIsReversedForward ==
    (Fresh /\ rev /\ Unbounded) =>
        YieldsExactly(Reversed(drain(seek_to_first, TRUE, FALSE,
                                     None, None, None, Len(db) + 1)))

C2_Witness ==
    /\ rev /\ Unbounded
    /\ Len(db) = MaxStore
    /\ Exhausted
    /\ Len(Yielded) = MaxStore

(* C3.  Forward, from(k), no to, no prefix: the first pull yields the      *)
(* entry with the smallest stored key >= k, and None when there is none.   *)
C3_FromForwardFirst ==
    (Fresh /\ ~rev /\ from # None /\ to = None /\ prefix = None
        /\ Len(res) >= 1) =>
        LET G == {i \in 1..Len(db) : LexLeq(from[1], KeyAt(i))}
        IN  /\ G = {} => res[1] = None
            /\ G # {} =>
                  \E i \in G :
                      /\ \A j \in G : LexLeq(KeyAt(i), KeyAt(j))
                      /\ res[1] = Some(db[i])

\* k is not stored; a smaller key and a larger key are
C3_Witness ==
    /\ ~rev /\ from # None /\ to = None /\ prefix = None
    /\ Len(res) >= 1
    /\ ~IsNone(1)
    /\ \A i \in 1..Len(db) : KeyAt(i) # from[1]
    /\ \E i \in 1..Len(db) : LexLess(KeyAt(i), from[1])

(* C4.  iter().from(k).reverse(), no to, no prefix: the first pull yields  *)
(* the entry with the largest stored key <= k, also when k is greater      *)
(* than every stored key.                                                  *)
C4_FromReverseFirst ==
    (Fresh /\ rev /\ from # None /\ to = None /\ prefix = None
        /\ FirstPullMade) =>
        LET L == {i \in 1..Len(db) : LexLeq(KeyAt(i), from[1])}
        IN  L # {} =>
                /\ Len(res) >= 1
                /\ \E i \in L :
                      /\ \A j \in L : LexLeq(KeyAt(j), KeyAt(i))
                      /\ res[1] = Some(db[i])

(* C5.  Forward, from a and/or to b, no prefix: pulled until None, the     *)
(* iterator yields exactly the stored entries with a <= key <= b (each set *)
(* bound, inclusive), ascending; the last one has the largest stored key   *)
(* <= b; nothing is yielded when a > b.                                    *)
InForwardBounds(k) ==
    /\ from # None => LexLeq(from[1], k)
    /\ to # None => LexLeq(k, to[1])

C5_ForwardRange ==
    (Fresh /\ ~rev /\ prefix = None /\ (from # None \/ to # None)) =>
        /\ YieldsExactly(Stored(InForwardBounds))
        /\ (Exhausted /\ to # None /\ Len(Yielded) > 0) =>
              \A i \in 1..Len(db) :
                  (LexLeq(KeyAt(i), to[1]) /\ InForwardBounds(KeyAt(i)))
                      => LexLeq(KeyAt(i), Yielded[Len(Yielded)][1])
        /\ (from # None /\ to # None /\ LexLess(to[1], from[1])
               /\ Len(res) >= 1) => IsNone(1)

\* both bounds set, neither stored, entries below, inside and above
C5_Witness ==
    /\ ~rev /\ prefix = None /\ from # None /\ to # None
    /\ Exhausted
    /\ Len(Yielded) >= 1
    /\ Len(Yielded) < Len(db)
    /\ Yielded[Len(Yielded)][1] # to[1]

(* C6.  iter().from(a).to(b).reverse(), no prefix: pulled until None, the  *)
(* iterator yields exactly the stored entries with b <= key <= a,          *)
(* descending, for every store and every a and b.                          *)
InReverseBounds(k) ==
    /\ from # None => LexLeq(k, from[1])
    /\ to # None => LexLeq(to[1], k)

C6_ReverseRange ==
    (Fresh /\ rev /\ prefix = None /\ from # None /\ to # None) =>
        YieldsExactly(Reversed(Stored(InReverseBounds)))

(* C7.  iter().to(k).reverse(), no from, no prefix: iteration starts at    *)
(* the engine's last key and descends; the last entry yielded before None  *)
(* has the smallest stored key >= k, and no key < k is yielded.            *)
C7_ToReverse ==
    (Fresh /\ rev /\ from = None /\ to # None /\ prefix = None) =>
        /\ res = <<>> => pos = Len(db)
        /\ YieldsExactly(Reversed(Stored(InReverseBounds)))
        /\ \A j \in 1..Len(Yielded) : LexLeq(to[1], Yielded[j][1])
        /\ (Exhausted /\ Len(Yielded) > 0) =>
              \A i \in 1..Len(db) :
                  LexLeq(to[1], KeyAt(i))
                      => LexLeq(Yielded[Len(Yielded)][1], KeyAt(i))

\* k is not stored, a key below k and two keys above k are
C7_Witness ==
    /\ rev /\ from = None /\ to # None /\ prefix = None
    /\ Exhausted
    /\ Len(Yielded) >= 1
    /\ Len(Yielded) < Len(db)
    /\ Yielded[Len(Yielded)][1] # to[1]

(* C8, as claimed.  When every stored key is smaller than the to bound k,  *)
(* iter().to(k).reverse() pulled until None yields every stored entry in   *)
(* descending order.                                                       *)
AllBelowTo ==
    /\ to # None
    /\ Len(db) > 0
    /\ \A i \in 1..Len(db) : LexLess(KeyAt(i), to[1])

C8_ToReverseAllBelow_Claimed ==
    (Fresh /\ rev /\ from = None /\ prefix = None /\ AllBelowTo) =>
        YieldsExactly(Reversed(db))

(* C8, amended.  When every stored key is smaller than the to bound k,     *)
(* iter().to(k).reverse() yields nothing: its first pull returns None.     *)
C8_ToReverseAllBelow ==
    (Fresh /\ rev /\ from = None /\ prefix = None /\ AllBelowTo
        /\ FirstPullMade) =>
        /\ Len(res) >= 1
        /\ IsNone(1)

C8_Witness ==
    /\ rev /\ from = None /\ prefix = None /\ AllBelowTo
    /\ Len(db) = MaxStore
    /\ Len(res) >= 1

(* C9.  With prefix(p) set, in either direction, the iterator pulled until *)
(* None yields exactly the stored entries whose key starts with p, in the  *)
(* direction's key order.                                                  *)
HasPrefix(k) == prefix # None /\ StartsWith(k, prefix[1])

C9_PrefixBothDirections ==
    (Fresh /\ prefix # None) =>
        YieldsExactly(IF rev
                      THEN Reversed(Stored(HasPrefix))
                      ELSE Stored(HasPrefix))

(* C10.  With prefix(p) set, the sequence yielded until None is the same   *)
(* for every choice of from and to (set or not), in a given direction: it  *)
(* is the sequence of the iterator with that prefix and no from and no to. *)
C10_PrefixPrecedence ==
    (Fresh /\ prefix # None) =>
        YieldsExactly(drain(InitialEdge(rev), TRUE, rev,
                            None, None, prefix, Len(db) + 1))

\* from and to are set and exclude the entry that is yielded
C10_Witness ==
    /\ prefix # None /\ from # None /\ to # None
    /\ Exhausted
    /\ Len(Yielded) >= 1
    /\ ~valid(1, rev, from, to, None)
    /\ Yielded[1] = db[1]

----------------------------------------------------------------------------
(* C11.  last() on a forward iterator returns exactly the final entry that *)
(* pulling the same forward iterator until None would yield, and no entry  *)
(* when that traversal yields nothing, for every store and every bound     *)
(* configuration.                                                          *)
ForwardTraversal ==
    drain(seek_to_first, TRUE, FALSE, from, to, prefix, Len(db) + 1)

C11_LastIsFinal ==
    (Fresh /\ ~rev /\ kind = "entry" /\ (ext # None \/ live = "crashed")) =>
        /\ ext # None
        /\ ext[1] = IF Len(ForwardTraversal) = 0
                    THEN None
                    ELSE Some(ForwardTraversal[Len(ForwardTraversal)])

(* C16.  Extracting the current entry while the validity check does not    *)
(* hold fails fast; it never returns bytes as if they were an entry: each  *)
(* time last() returns an entry, the validity check holds at the cursor.   *)
C16_ExtractionChecked ==
    [][(ext' # ext /\ ext' # None /\ ext'[1] # None)
          => valid(pos', FALSE, from', to', prefix')]_vars
(* C12.  Exhaustion is permanent: once a pull has returned None, every     *)
(* later pull on the same iterator returns None.                           *)
C12_ExhaustionPermanent ==
    Fresh =>
        /\ \A i, j \in 1..Len(res) : (i < j /\ IsNone(i)) => IsNone(j)
        /\ live = "crashed" => ~Exhausted

(* C17.  On an empty store the first pull returns None, for every          *)
(* direction and every bound configuration.                                *)
C17_EmptyStoreFirstPull ==
    (Fresh /\ Len(db) = 0 /\ FirstPullMade) =>
        /\ Len(res) >= 1
        /\ IsNone(1)

(* C18.  On a fresh forward iterator with no bounds, seek(k) before the    *)
(* first pull makes the pulls yield the stored entries with key >= k,      *)
(* ascending, starting with the smallest stored key >= k.                  *)
AtOrAfterSought(k) == sought # None /\ LexLeq(sought[1], k)

C18_SeekThenPull ==
    (Fresh /\ ~rev /\ Unbounded /\ kind = "entry" /\ sought # None) =>
        YieldsExactly(Stored(AtOrAfterSought))

\* k is not stored; a smaller key and a larger key are
C18_Witness ==
    /\ ~rev /\ Unbounded /\ sought # None
    /\ Len(res) >= 1
    /\ ~IsNone(1)
    /\ res[1][1][1] # sought[1]
    /\ Len(db) = MaxStore
    /\ LexLess(KeyAt(1), sought[1])

(* C20.  reverse() on a NotStarted iterator repositions the cursor to the  *)
(* opposite edge: forward to reverse leaves it at the engine's last key,   *)
(* reverse to forward at the engine's first key.                           *)
C20_ReverseRepositions ==
    [][(rev' # rev /\ start) =>
          pos' = IF rev' THEN Len(db) ELSE IF Len(db) = 0 THEN 0 ELSE 1]_vars

\* a RevIterator made by reverse(), not yet pulled, over a full store
C20_Witness ==
    /\ live = "live" /\ rev /\ start /\ res = <<>>
    /\ Len(db) = MaxStore
    /\ pos = MaxStore
----------------------------------------------------------------------------
(* The projection views.                                                   *)

\* what the entry iterator of the given direction, with the bounds of the
\* state, yields until None
EntryTraversal(reverse) ==
    drain(InitialEdge(reverse), TRUE, reverse, from, to, prefix, Len(db) + 1)

\* the keys (c = 1) or the values (c = 2) of a sequence of entries
Component(E, c) == [i \in 1..Len(E) |-> E[i][c]]

ViewComponent == IF kind = "key" THEN 1 ELSE 2

(* C14.  A forward key-only view yields, pull by pull, exactly the keys,   *)
(* and a forward value-only view exactly the values, of the entries the    *)
(* forward entry iterator with the same bounds yields, with the same       *)
(* exhaustion point.                                                       *)
C14_ForwardViews ==
    (Fresh /\ ~rev /\ kind # "entry") =>
        YieldsExactly(Component(EntryTraversal(FALSE), ViewComponent))

\* a value-only view that yielded every value, the first one not the key
C14_Witness ==
    /\ ~rev /\ kind = "value"
    /\ Exhausted
    /\ Len(Yielded) = MaxStore
    /\ Yielded[1] # KeyAt(1)

(* C15.  The reversed key-only view yields exactly the keys, and the       *)
(* reversed value-only view exactly the values, of the entries the         *)
(* reversed entry iterator with the same bounds yields, in the same order  *)
(* (wherever that iterator's advance is defined).                          *)
C15_ReversedViews ==
    (Fresh /\ rev /\ kind # "entry" /\ ~ub) =>
        YieldsExactly(Component(EntryTraversal(TRUE), ViewComponent))
----------------------------------------------------------------------------
(* C13.  The native cursor made at construction is destroyed exactly once: *)
(* never while an iterator, reversed iterator or view holds it, never      *)
(* twice, and always when the final owner is discarded, also before        *)
(* exhaustion.                                                             *)
C13_DestroyedOnce ==
    /\ destroyed[1] <= 1
    /\ owners >= 1 => destroyed[1] = 0
    /\ live \in {"live", "crashed"} => (owners = 1 /\ destroyed[1] = 0)
    /\ live = "dropped" => (owners = 0 /\ destroyed[1] = 1)

\* a reversed key-only view dropped after one pull, before exhaustion
C13_Witness ==
    /\ live = "dropped"
    /\ rev /\ kind = "key"
    /\ Len(res) = 1 /\ ~Exhausted
    /\ destroyed[1] = 1
----------------------------------------------------------------------------
(* C19.  Two iterators made from the same store hold distinct cursors;     *)
(* under any interleaving of their pulls, seeks, reversals and drops each  *)
(* yields exactly what it would yield as the only iterator, and dropping   *)
(* one does not destroy the other's cursor.                                *)

\* r agrees, pull by pull up to the first None, with the entries E then None
Agrees(r, E) ==
    \A i \in 1..Len(r) :
        (\A j \in 1..(i - 1) : r[j] # None)
            => r[i] = IF i <= Len(E) THEN Some(E[i]) ELSE None

\* what the first iterator yields alone: from where its last seek put it
AloneA ==
    drain(IF sought # None THEN seek(sought[1]) ELSE seek_to_first,
          TRUE, FALSE, None, None, None, Len(db) + 1)

\* what B yields alone, in its direction
AloneB == drain(InitialEdge(revB), TRUE, revB, None, None, None, Len(db) + 1)

C19_IndependentIterators ==
    (live # "none" /\ liveB # "none") =>
        /\ ptrB # 1
        /\ Agrees(res, AloneA)
        /\ Agrees(resB, AloneB)
        /\ live = "live" => destroyed[1] = 0
        /\ liveB = "live" => destroyed[ptrB] = 0

\* the first iterator was pulled to its end after B was dropped half way
C19_Witness ==
    /\ live = "live" /\ liveB = "dropped"
    /\ revB
    /\ Len(db) = MaxStore
    /\ Len(resB) = 1
    /\ Exhausted /\ Len(Yielded) = MaxStore
----------------------------------------------------------------------------
(* Operations between the pulls.                                           *)

\* the key k passes the bounds of the state, oriented by the direction:
\* the prefix when one is set, else from and to
InBounds(k, reverse) ==
    IF prefix # None
    THEN HasPrefix(k)
    ELSE IF reverse THEN InReverseBounds(k) ELSE InForwardBounds(k)

\* a pull returned in this step
Pulled == Len(res') = Len(res) + 1
\* what it returned
Returned == res'[Len(res')]

(* C21.  reverse() on a Started iterator leaves the cursor position, the   *)
(* bounds from, to and prefix and the traversal state as they are and      *)
(* only turns the direction; a pull of a Started iterator whose cursor is  *)
(* valid takes one raw step in the iterator's direction from where the     *)
(* cursor is and yields exactly when the cursor it reaches is valid and    *)
(* its key passes the bounds oriented by that direction.                   *)
C21_ReverseStartedKeeps ==
    [][/\ (rev' # rev /\ ~start) =>
             /\ pos' = pos
             /\ from' = from /\ to' = to /\ prefix' = prefix
             /\ start' = start
       /\ (Pulled /\ ~start /\ pos # 0) =>
             /\ pos' = IF rev
                       THEN pos - 1
                       ELSE IF pos = Len(db) THEN 0 ELSE pos + 1
             /\ (Returned # None)
                    <=> (pos' # 0 /\ InBounds(KeyAt(pos'), rev))]_vars

\* the first pull yielded the last of two entries going forward, the
\* iterator was then reversed and its second pull yielded the first entry
C21_Witness ==
    /\ live = "live" /\ rev /\ ~start /\ ~ub
    /\ Len(db) = MaxStore
    /\ res = <<Some(db[MaxStore]), Some(db[MaxStore - 1])>>
----------------------------------------------------------------------------
(* C22.  No element is skipped or repeated: for an iterator of fixed       *)
(* direction and bounds over an unchanging store, the keys its successive  *)
(* pulls yield are strictly increasing (forward) or strictly decreasing    *)
(* (reverse), and no stored key that passes the validity check lies        *)
(* strictly between two keys yielded one after the other.                  *)

\* the keys the pulls have yielded, in the order of the pulls
YieldedKeys ==
    LET Y == SelectSeq(res, LAMBDA r : r # None)
    IN  [i \in 1..Len(Y) |-> Y[i][1][1]]

\* a precedes b in the direction of the iterator
Precedes(a, b) == IF rev THEN LexLess(b, a) ELSE LexLess(a, b)

C22_NoSkipNoRepeat ==
    (Fresh /\ kind = "entry") =>
        \A i \in 1..(Len(YieldedKeys) - 1) :
            /\ Precedes(YieldedKeys[i], YieldedKeys[i + 1])
            /\ \A j \in 1..Len(db) :
                  InBounds(KeyAt(j), rev) =>
                      ~(/\ Precedes(YieldedKeys[i], KeyAt(j))
                        /\ Precedes(KeyAt(j), YieldedKeys[i + 1]))
----------------------------------------------------------------------------
(* C23.  The traversal state only goes one way.  An iterator is made       *)
(* NotStarted (start is true) with no bounds; every pull that returns      *)
(* leaves it Started (start is false); no operation takes a Started        *)
(* iterator back to NotStarted; so the NotStarted branch of advance, with  *)
(* its seek to the bounds, runs on the first pull only.                    *)
C23_StartedIsOneWay ==
    [][/\ (live # "live" /\ live' = "live") =>
             (start' /\ from' = None /\ to' = None /\ prefix' = None)
       /\ Pulled => ~start'
       /\ ~start => ~start'
       /\ (Pulled /\ start) => res = <<>>]_vars

\* a Started iterator that was reversed, has both bounds and was pulled
\* again, its cursor left not valid
C23_Witness ==
    /\ live = "live" /\ ~start /\ rev
    /\ from # None /\ to # None
    /\ Len(res) = MaxMidPulls
    /\ Len(db) = MaxStore
    /\ pos = 0
----------------------------------------------------------------------------
(* C24.  Every entry a pull yields is the entry at the cursor, the cursor  *)
(* is valid and the entry's key passes the validity check for the          *)
(* iterator's direction at that moment (the prefix if one is set, else     *)
(* from and to, inclusive, oriented by the direction), whatever bounds     *)
(* were attached, seeks made and reversals done before the pull, between   *)
(* pulls included.                                                         *)
C24_YieldedIsValid ==
    [][(Pulled /\ Returned # None) =>
          /\ pos' # 0
          /\ Returned = Some(entry(pos'))
          /\ InBounds(KeyAt(pos'), rev)
          /\ rev' = rev /\ from' = from /\ to' = to /\ prefix' = prefix]_vars

\* a reversed iterator yielded, on its second pull, an entry within from
\* and to, after a first pull that yielded an entry above from: the pull
\* was made after a reversal and after the bounds were attached
C24_Witness ==
    /\ live = "live" /\ rev /\ ~ub
    /\ Len(db) = MaxStore
    /\ res = <<Some(db[MaxStore]), Some(db[MaxStore - 1])>>
    /\ prefix = None /\ from # None /\ to # None
    /\ ~InBounds(KeyAt(MaxStore), TRUE)
    /\ InBounds(KeyAt(MaxStore - 1), TRUE)
----------------------------------------------------------------------------
(* C25.  last() is a point query: an iterator asked for last() is still    *)
(* NotStarted until it is pulled, and its pulls yield, one by one, what    *)
(* the pulls of the same iterator yield when last() is not called.         *)
C25_LastIsPointQuery ==
    (Fresh /\ ~rev /\ kind = "entry" /\ ext # None) =>
        /\ res = <<>> => start
        /\ Agrees(res, ForwardTraversal)
----------------------------------------------------------------------------
(* C26.  A NotStarted iterator on which seek was not called, with any      *)
(* bounds, yields after reverse().reverse(), pulled until None, exactly    *)
(* the entries the original iterator yields (wherever the original's       *)
(* advance is defined): the iterator of the same direction and bounds at   *)
(* its initial edge.                                                       *)
C26_DoubleReverse ==
    (Fresh /\ kind = "entry" /\ reversals >= 2 /\ ~ub) =>
        YieldsExactly(EntryTraversal(rev))

\* a forward iterator with a from bound, reversed twice, that yielded its
\* entries from the bound on, not all of the store
C26_Witness ==
    /\ reversals = 2 /\ ~rev /\ ~ub
    /\ from # None /\ prefix = None
    /\ Len(db) = MaxStore
    /\ Exhausted
    /\ Len(Yielded) >= 1
    /\ Len(Yielded) < MaxStore
====
